---- MODULE Spec2Model ----
(***************************************************************************)
(* AWQ 4-bit quantized linear layer                                        *)
(* (vllm/model_executor/layers/quantization/awq.py).                       *)
(*                                                                         *)
(* The module models the life of one quantized linear layer shard:         *)
(*   AWQConfig(...) / AWQConfig.from_config(...)   build the descriptor,   *)
(*   AWQLinearMethod.create_weights(...)           allocates the buffers,  *)
(*   AWQLinearMethod.apply_weights(...)            dispatches a matmul,    *)
(* and, under a second specification, the pure layout function             *)
(* calculate_zeros_width.  Tensors are modelled by their shape, dtype and  *)
(* attribute tags; the compute kernels (vllm._C.ops) are opaque and are    *)
(* modelled by the order in which they are invoked.                        *)
(***************************************************************************)
EXTENDS Integers, Sequences, FiniteSets, TLC

VARIABLES
    quant_config,   \* AWQLinearMethod.quant_config (None until constructed)
    shard,          \* the shard sizes the layer was allocated with (None before)
    weights,        \* the dict returned by create_weights (None until allocated)
    call            \* the most recent call: its name, arguments and outcome

vars == <<quant_config, shard, weights, call>>

\* Python's None.
None == [none |-> TRUE]

\* A call that returned normally raised nothing.
NoError == ""

(***************************************************************************)
(* Bounds of the model.                                                    *)
(***************************************************************************)
\* input sizes range over k * group_size + r, k <= MaxGroups, r <= MaxRem
MaxGroups == 9
MaxRem == 1
\* output sizes range over j * 8 + r, j <= MaxOutWords, r <= MaxRem
MaxOutWords == 2
\* token counts are sampled within MaxSlack of each dispatch threshold
MaxSlack == 1
\* pack_num arguments handed to calculate_zeros_width, 1..MaxPackNum
MaxPackNum == 9

(***************************************************************************)
(* Layout calculator.                                                      *)
(***************************************************************************)
\* def make_divisible(c, divisor): return (c + divisor - 1) // divisor
make_divisible(c, divisor) == (c + divisor - 1) \div divisor

\* Mutant: the first pass rounds the group count up (ceiling of
\* in_features / group_size) instead of flooring it.
calculate_zeros_width_ceil(in_features, group_size, pack_num) ==
    IF group_size >= 128 \/ group_size = 64 \/ group_size = 32
    THEN LET size_multiplier ==
                 IF group_size >= 128 THEN 1 ELSE IF group_size = 64 THEN 2 ELSE 4
             base_width == make_divisible(make_divisible(in_features, group_size), pack_num)
         IN  [raised |-> NoError,
              ret |-> make_divisible(base_width, size_multiplier) * size_multiplier]
    ELSE [raised |-> "NotImplementedError", ret |-> 0]

\* Mutant: the group count is divided by pack_num with floor division, so a
\* partly filled last pack is dropped.
calculate_zeros_width_floor(in_features, group_size, pack_num) ==
    IF group_size >= 128 \/ group_size = 64 \/ group_size = 32
    THEN LET size_multiplier ==
                 IF group_size >= 128 THEN 1 ELSE IF group_size = 64 THEN 2 ELSE 4
             base_width == (in_features \div group_size) \div pack_num
         IN  [raised |-> NoError,
              ret |-> make_divisible(base_width, size_multiplier) * size_multiplier]
    ELSE [raised |-> "NotImplementedError", ret |-> 0]

\* def calculate_zeros_width(in_features, group_size=128, pack_num=8)
\* The result is [raised, ret]: ret is meaningful only when nothing was raised.
calculate_zeros_width(in_features, group_size, pack_num) ==
    IF group_size >= 128 \/ group_size = 64 \/ group_size = 32
    THEN LET size_multiplier ==
                 IF group_size >= 128 THEN 1 ELSE IF group_size = 64 THEN 2 ELSE 4
             base_width == make_divisible(in_features \div group_size, pack_num)
         IN  [raised |-> NoError,
              ret |-> make_divisible(base_width, size_multiplier) * size_multiplier]
    ELSE [raised |-> "NotImplementedError", ret |-> 0]

(***************************************************************************)
(* Quantization descriptor.                                                *)
(***************************************************************************)
\* Mutant: the bit-width check is missing.
AWQConfig_unchecked(weight_bits, group_size, zero_point, version) ==
    [raised |-> NoError,
     ret |-> [weight_bits |-> weight_bits,
              group_size |-> group_size,
              zero_point |-> zero_point,
              version |-> version,
              pack_factor_int32 |-> 32 \div weight_bits,
              pack_factor_int16 |-> 16 \div weight_bits,
              interleave |-> 4]]

\* AWQConfig.__init__: the fields are stored, then any bit width other than 4
\* raises ValueError and no object is returned.
AWQConfig(weight_bits, group_size, zero_point, version) ==
    IF weight_bits # 4
    THEN [raised |-> "ValueError", ret |-> None]
    ELSE [raised |-> NoError,
          ret |-> [weight_bits |-> weight_bits,
                   group_size |-> group_size,
                   zero_point |-> zero_point,
                   version |-> version,
                   pack_factor_int32 |-> 32 \div weight_bits,
                   pack_factor_int16 |-> 16 \div weight_bits,
                   interleave |-> 4]]

\* QuantizationConfig.get_from_keys(config, keys): the value of the first key
\* of keys that config holds; ValueError when it holds none of them.
RECURSIVE get_from_keys(_, _)
get_from_keys(config, keys) ==
    IF keys = <<>>
    THEN [raised |-> "ValueError", ret |-> None]
    ELSE IF Head(keys) \in DOMAIN config
         THEN [raised |-> NoError, ret |-> config[Head(keys)]]
         ELSE get_from_keys(config, Tail(keys))

\* The rest of from_config once the four lookups are done: the first lookup
\* that raised ends the call, otherwise the descriptor is constructed.
from_lookups(weight_bits, group_size, zero_point, version) ==
    IF weight_bits.raised # NoError THEN weight_bits
    ELSE IF group_size.raised # NoError THEN group_size
    ELSE IF zero_point.raised # NoError THEN zero_point
    ELSE IF version.raised # NoError THEN version
    ELSE AWQConfig(weight_bits.ret, group_size.ret, zero_point.ret, version.ret)

\* Mutant: the bit width is looked up under "weight_bits" instead of "w_bit".
from_config_weight_bits(config) ==
    from_lookups(get_from_keys(config, <<"weight_bits", "bits">>),
                 get_from_keys(config, <<"q_group_size", "group_size">>),
                 get_from_keys(config, <<"zero_point">>),
                 get_from_keys(config, <<"version">>))

\* AWQConfig.from_config(config)
from_config(config) ==
    from_lookups(get_from_keys(config, <<"w_bit", "bits">>),
                 get_from_keys(config, <<"q_group_size", "group_size">>),
                 get_from_keys(config, <<"zero_point">>),
                 get_from_keys(config, <<"version">>))

(***************************************************************************)
(* Weight buffer allocator.                                                *)
(***************************************************************************)
\* Parameter(torch.empty(*shape, dtype=dtype)) followed by set_weight_attrs.
Parameter(shape, dtype, attrs) == [shape |-> shape, dtype |-> dtype, attrs |-> attrs]

\* Mutant: the scales rows are counted as in the other layout
\* (input_size_per_partition // group_size).
gemv_fast_layout_plain_rows(cfg, input_size_per_partition, output_size_per_partition, params_dtype) ==
    LET qweight == Parameter(
            <<output_size_per_partition \div cfg.interleave,
              (input_size_per_partition \div cfg.pack_factor_int16) * cfg.interleave>>,
            "int16",
            [input_dim |-> 1, output_dim |-> 0, packed_dim |-> 1,
             pack_factor |-> cfg.pack_factor_int16, awq_interleave |-> cfg.interleave])
        width == calculate_zeros_width(input_size_per_partition, cfg.group_size, 8)
    IN  IF width.raised # NoError
        THEN [raised |-> width.raised, created |-> <<"qweight">>, ret |-> None]
        ELSE [raised |-> NoError,
              created |-> <<"qweight", "qzeros", "scales">>,
              ret |-> [qweight |-> qweight,
                       qzeros |-> Parameter(
                           <<width.ret * cfg.pack_factor_int32, output_size_per_partition>>,
                           params_dtype,
                           [input_dim |-> 0, output_dim |-> 1, packed_dim |-> 0]),
                       scales |-> Parameter(
                           <<input_size_per_partition \div cfg.group_size,
                             output_size_per_partition>>,
                           params_dtype,
                           [input_dim |-> 0, output_dim |-> 1, packed_dim |-> 0])]]

\* create_weights, version == "gemv_fast": qweight is built first; the width
\* of qzeros is computed next and raises for an unsupported group size.
gemv_fast_layout(cfg, input_size_per_partition, output_size_per_partition, params_dtype) ==
    LET qweight == Parameter(
            <<output_size_per_partition \div cfg.interleave,
              (input_size_per_partition \div cfg.pack_factor_int16) * cfg.interleave>>,
            "int16",
            [input_dim |-> 1, output_dim |-> 0, packed_dim |-> 1,
             pack_factor |-> cfg.pack_factor_int16, awq_interleave |-> cfg.interleave])
        width == calculate_zeros_width(input_size_per_partition, cfg.group_size, 8)
    IN  IF width.raised # NoError
        THEN [raised |-> width.raised, created |-> <<"qweight">>, ret |-> None]
        ELSE [raised |-> NoError,
              created |-> <<"qweight", "qzeros", "scales">>,
              ret |-> [qweight |-> qweight,
                       qzeros |-> Parameter(
                           <<width.ret * cfg.pack_factor_int32, output_size_per_partition>>,
                           params_dtype,
                           [input_dim |-> 0, output_dim |-> 1, packed_dim |-> 0]),
                       scales |-> Parameter(
                           <<width.ret * cfg.pack_factor_int32, output_size_per_partition>>,
                           params_dtype,
                           [input_dim |-> 0, output_dim |-> 1, packed_dim |-> 0])]]

\* Mutant: qzeros is allocated one row per input feature instead of one row
\* per group.
standard_layout_row_per_feature(cfg, input_size_per_partition, output_size_per_partition, params_dtype) ==
    [raised |-> NoError,
     created |-> <<"qweight", "qzeros", "scales">>,
     ret |-> [qweight |-> Parameter(
                  <<input_size_per_partition,
                    output_size_per_partition \div cfg.pack_factor_int32>>,
                  "int32",
                  [input_dim |-> 0, output_dim |-> 1, packed_dim |-> 1,
                   pack_factor |-> cfg.pack_factor_int32]),
              qzeros |-> Parameter(
                  <<input_size_per_partition,
                    output_size_per_partition \div cfg.pack_factor_int32>>,
                  "int32",
                  [input_dim |-> 0, output_dim |-> 1, packed_dim |-> 1,
                   pack_factor |-> cfg.pack_factor_int32]),
              scales |-> Parameter(
                  <<input_size_per_partition \div cfg.group_size,
                    output_size_per_partition>>,
                  params_dtype,
                  [input_dim |-> 0, output_dim |-> 1])]]

\* create_weights, any other version.
standard_layout(cfg, input_size_per_partition, output_size_per_partition, params_dtype) ==
    [raised |-> NoError,
     created |-> <<"qweight", "qzeros", "scales">>,
     ret |-> [qweight |-> Parameter(
                  <<input_size_per_partition,
                    output_size_per_partition \div cfg.pack_factor_int32>>,
                  "int32",
                  [input_dim |-> 0, output_dim |-> 1, packed_dim |-> 1,
                   pack_factor |-> cfg.pack_factor_int32]),
              qzeros |-> Parameter(
                  <<input_size_per_partition \div cfg.group_size,
                    output_size_per_partition \div cfg.pack_factor_int32>>,
                  "int32",
                  [input_dim |-> 0, output_dim |-> 1, packed_dim |-> 1,
                   pack_factor |-> cfg.pack_factor_int32]),
              scales |-> Parameter(
                  <<input_size_per_partition \div cfg.group_size,
                    output_size_per_partition>>,
                  params_dtype,
                  [input_dim |-> 0, output_dim |-> 1])]]

\* Mutant: the output-size alignment check is missing.
create_weights_unaligned_output(cfg, input_size_per_partition, output_size_per_partition, params_dtype) ==
    IF input_size_per_partition % cfg.group_size # 0
    THEN [raised |-> "ValueError", created |-> <<>>, ret |-> None]
    ELSE IF cfg.version = "gemv_fast"
    THEN gemv_fast_layout(cfg, input_size_per_partition, output_size_per_partition, params_dtype)
    ELSE standard_layout(cfg, input_size_per_partition, output_size_per_partition, params_dtype)

\* AWQLinearMethod.create_weights (input_size and output_size are not read).
\* The result is [raised, created, ret]: created lists the buffers built
\* before the call ended, ret is the returned dict or None.
create_weights(cfg, input_size_per_partition, output_size_per_partition, params_dtype) ==
    IF input_size_per_partition % cfg.group_size # 0
    THEN [raised |-> "ValueError", created |-> <<>>, ret |-> None]
    ELSE IF output_size_per_partition % cfg.pack_factor_int32 # 0
    THEN [raised |-> "ValueError", created |-> <<>>, ret |-> None]
    ELSE IF cfg.version = "gemv_fast"
    THEN gemv_fast_layout(cfg, input_size_per_partition, output_size_per_partition, params_dtype)
    ELSE standard_layout(cfg, input_size_per_partition, output_size_per_partition, params_dtype)

(***************************************************************************)
(* Matmul dispatcher.                                                      *)
(***************************************************************************)
\* torch.Size.numel(): the product of the dimensions, 1 for the empty shape.
RECURSIVE numel(_)
numel(shape) == IF shape = <<>> THEN 1 ELSE Head(shape) * numel(Tail(shape))

\* x.shape[:-1]
leading(x_shape) == SubSeq(x_shape, 1, Len(x_shape) - 1)

\* Mutant: both heuristics compare with > instead of >=.
dispatch_strict(cfg, x_shape) ==
    IF cfg.version = "gemv_fast"
    THEN IF ~(numel(leading(x_shape)) > 8)
         THEN <<"awq_gemv_fast">>
         ELSE <<"awq_gemm_fast">>
    ELSE IF numel(leading(x_shape)) > 256
         THEN <<"awq_dequantize", "matmul">>
         ELSE <<"awq_gemm">>

\* The kernels apply_weights invokes, in order.
dispatch(cfg, x_shape) ==
    IF cfg.version = "gemv_fast"
    THEN IF ~(numel(leading(x_shape)) >= 8)
         THEN <<"awq_gemv_fast">>
         ELSE <<"awq_gemm_fast">>
    ELSE IF numel(leading(x_shape)) >= 256
         THEN <<"awq_dequantize", "matmul">>
         ELSE <<"awq_gemm">>

\* Mutant: the gemv_fast width is derived with the 32-bit pack factor
\* instead of the interleave factor.
output_shape_packed(cfg, w, x_shape) ==
    IF cfg.version = "gemv_fast"
    THEN leading(x_shape) \o <<w.qweight.shape[1] * cfg.pack_factor_int32>>
    ELSE leading(x_shape) \o
             <<w.qweight.shape[Len(w.qweight.shape)] * cfg.pack_factor_int32>>

\* out_shape of apply_weights (qweight.shape[0] is the first dimension,
\* qweight.shape[-1] the last).
output_shape(cfg, w, x_shape) ==
    IF cfg.version = "gemv_fast"
    THEN leading(x_shape) \o <<w.qweight.shape[1] * cfg.interleave>>
    ELSE leading(x_shape) \o
             <<w.qweight.shape[Len(w.qweight.shape)] * cfg.pack_factor_int32>>

\* AWQLinearMethod.apply_weights: the kernels run, the bias is added when
\* there is one, and the result is reshaped to out_shape.
apply_weights(cfg, w, x_shape, has_bias) ==
    [raised |-> NoError,
     kernels |-> dispatch(cfg, x_shape),
     bias_added |-> has_bias,
     ret |-> output_shape(cfg, w, x_shape)]

(***************************************************************************)
(* Inputs.                                                                 *)
(***************************************************************************)
WeightBits == {3, 4, 8}
GroupSizes == {16, 32, 64, 128, 130}
Versions == {"gemm", "gemv_fast"}
ParamsDtypes == {"float16"}

InputSizes(group_size) ==
    {k * group_size + r : k \in 0..MaxGroups, r \in 0..MaxRem} \ {0}

OutputSizes(cfg) ==
    {j * cfg.pack_factor_int32 + r : j \in 0..MaxOutWords, r \in 0..MaxRem} \ {0}

\* token counts on both sides of the two dispatch thresholds, and small ones
TokenCounts ==
    {0, 1, 4, 128}
        \cup {8 - d : d \in 0..MaxSlack} \cup {8 + d : d \in 0..MaxSlack}
        \cup {256 - d : d \in 0..MaxSlack} \cup {256 + d : d \in 0..MaxSlack}

\* x.shape[:-1] of the activations: (), (tokens,) and (2, tokens)
LeadShapes ==
    {<<>>} \cup {<<t>> : t \in TokenCounts} \cup {<<2, t>> : t \in TokenCounts}

\* config dicts as parsed from quant_config.json / quantize_config.json:
\* every key may be missing
Entry(key, values) == {<<>>} \cup {(key :> v) : v \in values}

ConfigDicts ==
    {a @@ b @@ c @@ d @@ e @@ f @@ g :
        a \in Entry("w_bit", {4}),
        b \in Entry("weight_bits", {4}),
        c \in Entry("bits", {4, 8}),
        d \in Entry("q_group_size", {64}),
        e \in Entry("group_size", {128}),
        f \in Entry("zero_point", {TRUE}),
        g \in Entry("version", Versions)}

(***************************************************************************)
(* The layer's life: descriptor, then buffers, then inference calls.       *)
(* The descriptor is built once at model load (a failed construction       *)
(* leaves none and may be tried again), create_weights needs the linear    *)
(* method's quant_config and is called once per shard, and apply_weights   *)
(* needs the dict create_weights returned and is called any number of      *)
(* times.  Every call's outcome depends only on its arguments,             *)
(* quant_config and weights.  Group sizes and shard sizes are positive.    *)
(***************************************************************************)
Init ==
    /\ quant_config = None
    /\ shard = None
    /\ weights = None
    /\ call = [op |-> "none"]

\* AWQConfig(weight_bits, group_size, zero_point, version).get_linear_method()
Construct ==
    /\ quant_config = None
    /\ \E weight_bits \in WeightBits, group_size \in GroupSizes,
          zero_point \in BOOLEAN, version \in Versions :
          LET r == AWQConfig(weight_bits, group_size, zero_point, version)
          IN  /\ call' = [op |-> "AWQConfig",
                          args |-> [weight_bits |-> weight_bits,
                                    group_size |-> group_size,
                                    zero_point |-> zero_point,
                                    version |-> version],
                          raised |-> r.raised,
                          ret |-> r.ret]
              /\ quant_config' = r.ret
    /\ UNCHANGED <<shard, weights>>

\* AWQConfig.from_config(config).get_linear_method()
FromConfig ==
    /\ quant_config = None
    /\ \E config \in ConfigDicts :
          LET r == from_config(config)
          IN  /\ call' = [op |-> "from_config",
                          args |-> config,
                          raised |-> r.raised,
                          ret |-> r.ret]
              /\ quant_config' = r.ret
    /\ UNCHANGED <<shard, weights>>

\* linear_method.create_weights(...), called once per layer shard
CreateWeights ==
    /\ quant_config # None
    /\ weights = None
    /\ \E input_size_per_partition \in InputSizes(quant_config.group_size),
          output_size_per_partition \in OutputSizes(quant_config),
          params_dtype \in ParamsDtypes :
          LET r == create_weights(quant_config, input_size_per_partition,
                                  output_size_per_partition, params_dtype)
              args == [input_size_per_partition |-> input_size_per_partition,
                       output_size_per_partition |-> output_size_per_partition,
                       params_dtype |-> params_dtype]
          IN  /\ call' = [op |-> "create_weights",
                          args |-> args,
                          raised |-> r.raised,
                          created |-> r.created,
                          ret |-> r.ret]
              /\ weights' = r.ret
              /\ shard' = IF r.raised = NoError THEN args ELSE None
    /\ UNCHANGED quant_config

\* linear_method.apply_weights(weights, x, bias) on an activation whose last
\* dimension is the shard's input size
ApplyWeights ==
    /\ quant_config # None
    /\ weights # None
    /\ \E lead \in LeadShapes, has_bias \in BOOLEAN :
          LET x_shape == lead \o <<shard.input_size_per_partition>>
              r == apply_weights(quant_config, weights, x_shape, has_bias)
          IN  call' = [op |-> "apply_weights",
                       args |-> [x_shape |-> x_shape, has_bias |-> has_bias],
                       raised |-> r.raised,
                       kernels |-> r.kernels,
                       bias_added |-> r.bias_added,
                       ret |-> r.ret]
    /\ UNCHANGED <<quant_config, shard, weights>>

Next ==
    \/ Construct
    \/ FromConfig
    \/ CreateWeights
    \/ ApplyWeights

Spec == Init /\ [][Next]_vars

(***************************************************************************)
(* calculate_zeros_width on its own: Init draws the arguments, the one     *)
(* action calls the function.                                              *)
(***************************************************************************)
WidthGroupSizes == {16, 17, 32, 64, 128, 130, 256}

WidthInputs(group_size) ==
    {k * group_size + r : k \in 0..MaxGroups, r \in (0..MaxRem) \cup {group_size - 1}}

InitWidth ==
    /\ quant_config = None
    /\ shard = None
    /\ weights = None
    /\ \E group_size \in WidthGroupSizes :
       \E in_features \in WidthInputs(group_size), pack_num \in 1..MaxPackNum :
          call = [op |-> "pending",
                  args |-> [in_features |-> in_features,
                            group_size |-> group_size,
                            pack_num |-> pack_num]]

CalculateZerosWidth ==
    /\ call.op = "pending"
    /\ LET r == calculate_zeros_width(call.args.in_features, call.args.group_size,
                                      call.args.pack_num)
       IN  call' = [op |-> "calculate_zeros_width",
                    args |-> call.args,
                    raised |-> r.raised,
                    ret |-> r.ret]
    /\ UNCHANGED <<quant_config, shard, weights>>

NextWidth == CalculateZerosWidth

SpecWidth == InitWidth /\ [][NextWidth]_vars

(***************************************************************************)
(* Arithmetic the properties are stated with, defined by what a quotient   *)
(* is rather than by integer division.                                     *)
(***************************************************************************)
\* d divides n
Divides(d, n) == \E q \in 0..n : q * d = n

\* n / d when d divides n
ExactQuot(n, d) == CHOOSE q \in 0..n : q * d = n

\* the least q with q * d >= a
CeilQuot(a, d) == CHOOSE q \in 0..a : q * d >= a /\ (q - 1) * d < a

\* the greatest q with q * d <= a
FloorQuot(a, d) == CHOOSE q \in 0..a : q * d <= a /\ (q + 1) * d > a

\* the least multiple of m that is >= n
RoundUp(n, m) == CHOOSE r \in n..(n + m) : Divides(m, r)

\* the product of the first n dimensions of a shape
RECURSIVE ProductOfFirst(_, _)
ProductOfFirst(shape, n) ==
    IF n = 0 THEN 1 ELSE ProductOfFirst(shape, n - 1) * shape[n]

\* sizeMultiplier of a supported group size
SizeMultiplier(group_size) ==
    IF group_size = 32 THEN 4 ELSE IF group_size = 64 THEN 2 ELSE 1

SupportedGroupSize(group_size) ==
    group_size = 32 \/ group_size = 64 \/ group_size >= 128

Created == call.op = "create_weights" /\ call.raised = NoError

(***************************************************************************)
(* C1                                                                      *)
(***************************************************************************)
\* C1: constructing the descriptor fails for every weight_bits other than 4
\* and yields no descriptor; with weight_bits = 4 it succeeds for any group
\* size, zero-point flag and version, stores them verbatim and exposes
\* pack_factor_int32 = 8, pack_factor_int16 = 4 and interleave = 4.
C1_Construction ==
    call.op = "AWQConfig" =>
        IF call.args.weight_bits # 4
        THEN /\ call.raised # NoError
             /\ call.ret = None
             /\ quant_config = None
        ELSE /\ call.raised = NoError
             /\ quant_config = call.ret
             /\ call.ret.weight_bits = 4
             /\ call.ret.group_size = call.args.group_size
             /\ call.ret.zero_point = call.args.zero_point
             /\ call.ret.version = call.args.version
             /\ call.ret.pack_factor_int32 = 8
             /\ call.ret.pack_factor_int16 = 4
             /\ call.ret.interleave = 4

C1_Witness ==
    /\ call.op = "AWQConfig"
    /\ call.args.weight_bits = 8
    /\ call.raised = "ValueError"

(***************************************************************************)
(* C2                                                                      *)
(***************************************************************************)
\* C2: for both kernel variants create_weights fails with the sharding error
\* before any buffer is created or returned whenever the input size is not
\* divisible by the group size or the output size is not divisible by 8; when
\* both are divisible and the layout supports the group size it returns
\* exactly the three buffers qweight, qzeros and scales.
C2_Sharding ==
    call.op = "create_weights" =>
        LET aligned ==
                /\ Divides(quant_config.group_size, call.args.input_size_per_partition)
                /\ Divides(8, call.args.output_size_per_partition)
            supported ==
                \/ quant_config.version # "gemv_fast"
                \/ SupportedGroupSize(quant_config.group_size)
        IN  /\ ~aligned =>
                /\ call.raised = "ValueError"
                /\ call.created = <<>>
                /\ call.ret = None
                /\ weights = None
            /\ aligned /\ supported =>
                /\ call.raised = NoError
                /\ call.created = <<"qweight", "qzeros", "scales">>
                /\ DOMAIN call.ret = {"qweight", "qzeros", "scales"}
                /\ weights = call.ret

C2_Witness ==
    /\ call.op = "create_weights"
    /\ quant_config.version = "gemv_fast"
    /\ Divides(quant_config.group_size, call.args.input_size_per_partition)
    /\ ~Divides(8, call.args.output_size_per_partition)
    /\ call.raised = "ValueError"

(***************************************************************************)
(* C3                                                                      *)
(***************************************************************************)
\* C3: every apply_weights call takes exactly one compute path, chosen by the
\* version and the token count (the product of the leading dimensions) alone:
\* otherwise-than-gemv_fast, dequantize-then-matmul iff tokens >= 256 and the
\* fused GEMM otherwise; on gemv_fast, the gemv kernel iff tokens < 8 and the
\* fast GEMM otherwise.
C3_Dispatch ==
    call.op = "apply_weights" =>
        LET tokens == ProductOfFirst(call.args.x_shape, Len(call.args.x_shape) - 1)
        IN  IF quant_config.version = "gemv_fast"
            THEN call.kernels =
                     IF tokens < 8 THEN <<"awq_gemv_fast">> ELSE <<"awq_gemm_fast">>
            ELSE call.kernels =
                     IF tokens >= 256 THEN <<"awq_dequantize", "matmul">>
                                      ELSE <<"awq_gemm">>

C3_Witness ==
    /\ call.op = "apply_weights"
    /\ quant_config.version # "gemv_fast"
    /\ call.args.x_shape = <<2, 128, shard.input_size_per_partition>>
    /\ call.kernels = <<"awq_dequantize", "matmul">>

(***************************************************************************)
(* C4                                                                      *)
(***************************************************************************)
\* C4: the shape apply_weights returns is the activation's shape with its last
\* dimension replaced by the output_size_per_partition the weights were
\* allocated with, for both versions, every path, with or without bias.
C4_OutputShape ==
    call.op = "apply_weights" =>
        LET n == Len(call.args.x_shape)
        IN  /\ Len(call.ret) = n
            /\ \A i \in 1..(n - 1) : call.ret[i] = call.args.x_shape[i]
            /\ call.ret[n] = shard.output_size_per_partition

C4_Witness ==
    /\ call.op = "apply_weights"
    /\ quant_config.version = "gemv_fast"
    /\ call.args.has_bias
    /\ Len(call.args.x_shape) = 3
    /\ call.ret[3] = 16

(***************************************************************************)
(* C5                                                                      *)
(***************************************************************************)
\* C5: for every shard that create_weights accepts, qweight has shape
\* (input, output / 8), or on gemv_fast (output / 4, input / 4 * 4), with
\* every division exact, so that it holds exactly input * output 4-bit values.
C5_QweightShape ==
    Created =>
        LET input == call.args.input_size_per_partition
            output == call.args.output_size_per_partition
            shape == call.ret.qweight.shape
        IN  IF quant_config.version = "gemv_fast"
            THEN /\ Divides(4, output)
                 /\ Divides(4, input)
                 /\ shape = <<ExactQuot(output, 4), ExactQuot(input, 4) * 4>>
                 /\ shape[1] * shape[2] * 4 = input * output
            ELSE /\ Divides(8, output)
                 /\ shape = <<input, ExactQuot(output, 8)>>
                 /\ shape[1] * shape[2] * 8 = input * output

(***************************************************************************)
(* C6                                                                      *)
(***************************************************************************)
\* C6 as stated: in the standard layout scales and qzeros have the same
\* physical shape.
C6_SameShape ==
    Created /\ quant_config.version # "gemv_fast" =>
        call.ret.scales.shape = call.ret.qzeros.shape

\* C6 as amended: in the standard layout scales and qzeros have the same
\* number of rows, one per group (input / group_size); scales has
\* output columns and qzeros, packed along that dimension, output / 8.
C6_SameRows ==
    Created /\ quant_config.version # "gemv_fast" =>
        LET input == call.args.input_size_per_partition
            output == call.args.output_size_per_partition
            groups == ExactQuot(input, quant_config.group_size)
        IN  /\ call.ret.scales.shape = <<groups, output>>
            /\ call.ret.qzeros.shape = <<groups, ExactQuot(output, 8)>>

C6_Witness ==
    /\ Created
    /\ quant_config.version # "gemv_fast"
    /\ call.args.output_size_per_partition = 16
    /\ call.ret.scales.shape[1] = 2
    /\ call.ret.qzeros.shape = <<2, 2>>

FirstPresent(config, first, second) ==
    IF first \in DOMAIN config THEN <<config[first]>>
    ELSE IF second \in DOMAIN config THEN <<config[second]>>
    ELSE <<>>

\* from_config reads the bit width under bit_key, then "bits": a config that
\* supplies all four fields with a bit width of 4 yields a descriptor, and
\* every descriptor it yields holds the four values so read.
FactoryReads(bit_key) ==
    call.op = "from_config" =>
        LET bits == FirstPresent(call.args, bit_key, "bits")
            group == FirstPresent(call.args, "q_group_size", "group_size")
            zero == FirstPresent(call.args, "zero_point", "zero_point")
            version == FirstPresent(call.args, "version", "version")
            found == bits # <<>> /\ group # <<>> /\ zero # <<>> /\ version # <<>>
        IN  /\ (found /\ bits = <<4>>) => call.raised = NoError
            /\ call.raised = NoError =>
                /\ found
                /\ quant_config = call.ret
                /\ call.ret.weight_bits = bits[1]
                /\ call.ret.group_size = group[1]
                /\ call.ret.zero_point = zero[1]
                /\ call.ret.version = version[1]

\* C8 as stated: from_config reads the bit width from the first present of
\* weight_bits, bits (and the group size from q_group_size, group_size, the
\* flag from zero_point, the variant from version), so a config that gives
\* the bit width under weight_bits and has no bits key yields a descriptor.
C8_ReadsWeightBits == FactoryReads("weight_bits")

\* C8 as amended: from_config reads the bit width from the first present of
\* w_bit, bits (the other three fields as stated), so a config that gives the
\* bit width under w_bit and has no bits key yields a descriptor; the key
\* weight_bits is not read.
C8_ReadsWBit == FactoryReads("w_bit")

C8_Witness ==
    /\ call.op = "from_config"
    /\ DOMAIN call.args = {"w_bit", "group_size", "zero_point", "version"}
    /\ call.raised = NoError
    /\ quant_config.weight_bits = 4
    /\ quant_config.group_size = 128

C10_FastRows ==
    Created /\ quant_config.version = "gemv_fast" =>
        LET input == call.args.input_size_per_partition
            output == call.args.output_size_per_partition
            width == calculate_zeros_width(input, quant_config.group_size, 8)
        IN  /\ call.ret.qzeros.shape = call.ret.scales.shape
            /\ call.ret.scales.shape = <<width.ret * 8, output>>
            /\ call.ret.scales.shape[1] >= ExactQuot(input, quant_config.group_size)

C10_Witness ==
    /\ Created
    /\ quant_config.version = "gemv_fast"
    /\ quant_config.group_size = 32
    /\ call.args.input_size_per_partition = 9 * 32
    /\ call.ret.scales.shape[1] = 32

====
